---- MODULE Spec2Model ----
(***************************************************************************)
(* pyMec.geometry: the session (PyMecSession) that records PyMecObjects in *)
(* a workspace, searches them and saves / loads the workspace with pickle. *)
(*                                                                         *)
(* Python objects live in a heap of references: a workspace is a list of   *)
(* references, `==` on two PyMecObjects compares references (the class     *)
(* defines __equal__, which Python never calls, and no __eq__), and        *)
(* pickle.load builds new objects that carry the pickled uid and name.     *)
(*                                                                         *)
(* The geometric classes (Vector, Point, Segment, Contour) and the         *)
(* parallelogram factory follow: their objects live in a second map of     *)
(* references, and each method is an operator from the objects before the  *)
(* call to the objects after it and the value returned or exception raised.*)
(***************************************************************************)
EXTENDS Integers, Sequences, FiniteSets, TLC

\* ---------------------------------------------------------------- bounds
\* objects the client program constructs, and the longest workspace it
\* builds with append, while it saves and loads (Spec)
MaxNew == 1
MaxWs == 1
\* objects the client program constructs, and the longest workspace it
\* builds, while it only works on the workspace (SpecWorkspace)
MaxObjects == 2
MaxLen == 3
\* the highest dimension of the vectors the client program constructs
\* (SpecVector)
MaxDim == 3
\* the longest contour the client program builds (SpecContour and
\* SpecParallelogram)
MaxSegments == 4

\* ------------------------------------------------------------- constants
\* geometry.py:120, `if best < 70`
Threshold == 70

\* the client program's two sessions (test_save_load_file: session, new_session)
Sessions == {"session", "new_session"}
NoSession == ""

\* the references (addresses) of the objects: those the client constructs,
\* then for each session those of the objects pickle.load makes for it
MaxHeld == IF MaxNew >= MaxObjects THEN MaxNew ELSE MaxObjects
Region(s) ==
    IF s = "session" THEN (MaxHeld + 1) .. (MaxHeld + MaxWs)
    ELSE (MaxHeld + MaxWs + 1) .. (MaxHeld + 2 * MaxWs)
Refs == 1 .. (MaxHeld + 2 * MaxWs)

\* names are strings, kept as sequences of characters (fuzz.ratio reads them):
\* the names the client gives its objects ('' is the default) and the names
\* it searches for
Names == { <<>>, <<"a", "b", "c">>, <<"a", "b", "d">> }
Queries == { <<>>, <<"a", "b">>, <<"a", "b", "c">>, <<"x", "y">> }

\* a free heap slot
NoObj == [uid |-> 0, name |-> <<>>]

\* the filename arguments the client passes (strings), None for "no argument"
None == "None"
FileArgs == {"d/a.pymec", "d/./a.pymec"}

\* pathlib.Path(filename): PurePath drops "." components, so "d/./a.pymec"
\* and "d/a.pymec" are the same path
Path(filename) ==
    IF filename = "d/./a.pymec" THEN "d/a.pymec" ELSE filename

Paths == {Path(f) : f \in FileArgs}

\* filepath.parent, as the set of directories mkdir(parents=True) has to make
\* (the current directory always exists)
Parents(filepath) ==
    IF filepath = "d/a.pymec" THEN {"d"} ELSE {}

\* the readings of datetime.now(): an earlier and a later instant
Instants == {0, 1}

\* what the client puts in the header with add_to_header or the header setter
UserHeaders == { [prop_1 |-> "a"] }

\* geometry.py:54, {'pyMec version': __version__}
VersionHeader == [pyMec_version |-> "0.0.1"]

VARIABLES
    heap,           \* Refs -> [uid, name]: the live PyMecObjects (NoObj: free)
    held,           \* the references the client program keeps in its variables
                    \* (into heap in the session programs, into geometry in
                    \* the geometric ones)
    workspace,      \* Sessions -> sequence of references (__workspace)
    header_common,  \* Sessions -> map (__header_common)
    header,         \* Sessions -> map (__header)
    files,          \* Paths -> what the file system holds at the path
    dirs,           \* the directories that exist besides the current one
    saving,         \* the save_to_file call that has opened its file, if any
    last,           \* the last call: its name, session, arguments and outcome
    geometry        \* references -> the live Vectors, Points, Segments and Contours

vars == <<heap, held, workspace, header_common, header, files, dirs, saving, last,
          geometry>>

\* ------------------------------------------------------------ file contents
Absent == [kind |-> "absent", data |-> <<>>]
\* open(filepath, 'bw') leaves an empty file until pickle.dump writes
Empty == [kind |-> "empty", data |-> <<>>]
\* a pickle stream cut short
Partial == [kind |-> "partial", data |-> <<>>]
\* bytes that are no pickle stream
Garbage == [kind |-> "garbage", data |-> <<>>]
\* a pickle stream of the list `data`
Pickled(data) == [kind |-> "pickle", data |-> data]

NoSave == [s |-> NoSession, filepath |-> ""]

\* ------------------------------------------------------------------ helpers
Range(seq) == {seq[i] : i \in 1 .. Len(seq)}

Max(S) == CHOOSE x \in S : \A y \in S : y <= x

Min(S) == CHOOSE x \in S : \A y \in S : x <= y

\* dict.update: the keys of `upd` are added or overwritten
update(dict, upd) ==
    [k \in (DOMAIN dict) \cup (DOMAIN upd) |->
        IF k \in DOMAIN upd THEN upd[k] ELSE dict[k]]

EmptyDict == [k \in {} |-> 0]

\* the objects the program can still reach: through its own variables or
\* through a workspace. Anything else Python has freed.
Reachable(hld, ws) == hld \cup UNION {Range(ws[s]) : s \in Sessions}

\* the heap after the unreachable objects are freed
Collect(hp, hld, ws) ==
    [r \in Refs |-> IF r \in Reachable(hld, ws) THEN hp[r] ELSE NoObj]

\* uuid.uuid4().hex: a value no object carries yet
uuid4 == 1 + Max({heap[r].uid : r \in Refs})

\* the outcome of a call: err is the exception's class, "" when it returned
Outcome(op, s, filename, err, ret) ==
    [op |-> op, s |-> s, filename |-> filename, name |-> <<>>, err |-> err, ret |-> ret]

Init ==
    /\ heap = [r \in Refs |-> NoObj]
    /\ held = {}
    /\ workspace = [s \in Sessions |-> <<>>]
    /\ header_common = [s \in Sessions |-> VersionHeader]
    /\ header = [s \in Sessions |-> EmptyDict]
    /\ files = [p \in Paths |-> Absent]
    /\ dirs = {}
    /\ saving = NoSave
    /\ last = Outcome("start", NoSession, None, "", <<>>)
    /\ geometry = [r \in {} |-> 0]

\* ------------------------------------------------------------- PyMecObject
\* PyMecObject.__init__(name): obj = PyMecObject(name) in the client program
PyMecObject_init(name) ==
    /\ saving = NoSave
    /\ LET r == Min({x \in Refs : heap[x] = NoObj})
       IN /\ heap' = [heap EXCEPT ![r] = [uid |-> uuid4, name |-> name]]
          /\ held' = held \cup {r}
    /\ last' = Outcome("PyMecObject", NoSession, None, "", <<>>)
    /\ UNCHANGED <<workspace, header_common, header, files, dirs, saving>>

\* the == of two PyMecObjects. The class names its comparison __equal__,
\* which is no special method, so == is object's default: the same object.
PyMecObject_eq(a, b) == a = b

\* name.setter: obj.name = value, on any object the program can reach
name_set(obj, value) ==
    /\ saving = NoSave
    /\ obj \in Reachable(held, workspace)
    /\ heap' = [heap EXCEPT ![obj].name = value]
    /\ last' = Outcome("name.setter", NoSession, None, "", <<>>)
    /\ UNCHANGED <<held, workspace, header_common, header, files, dirs, saving>>

\* ------------------------------------------------------------ PyMecSession
\* a value that is no PyMecObject (append's isinstance test)
NotAnObject == 0

\* PyMecSession.__init__: session = PyMecSession() in the client program
PyMecSession_init(s) ==
    /\ saving = NoSave
    /\ workspace' = [workspace EXCEPT ![s] = <<>>]
    /\ header_common' = [header_common EXCEPT ![s] = VersionHeader]
    /\ header' = [header EXCEPT ![s] = EmptyDict]
    /\ heap' = Collect(heap, held, workspace')
    /\ last' = Outcome("PyMecSession", s, None, "", <<>>)
    /\ UNCHANGED <<held, files, dirs, saving>>

\* header.setter
header_set(s, value) ==
    /\ saving = NoSave
    /\ header' = [header EXCEPT ![s] = value]
    /\ last' = Outcome("header.setter", s, None, "", <<>>)
    /\ UNCHANGED <<heap, held, workspace, header_common, files, dirs, saving>>

\* header.deleter
header_del(s) ==
    /\ saving = NoSave
    /\ header' = [header EXCEPT ![s] = EmptyDict]
    /\ last' = Outcome("header.deleter", s, None, "", <<>>)
    /\ UNCHANGED <<heap, held, workspace, header_common, files, dirs, saving>>

\* append(obj)
append(s, obj) ==
    /\ saving = NoSave
    /\ IF obj = NotAnObject
       THEN /\ last' = Outcome("append", s, None, "TypeError", <<>>)
            /\ UNCHANGED workspace
       ELSE /\ workspace' = [workspace EXCEPT ![s] = Append(@, obj)]
            /\ last' = Outcome("append", s, None, "", <<>>)
    /\ UNCHANGED <<heap, held, header_common, header, files, dirs, saving>>

\* what search_by_uid returns: None, or a list with the one (obj, index) pair
PyNone == [isNone |-> TRUE, list |-> <<>>]

PyList(list) == [isNone |-> FALSE, list |-> list]

\* search_by_uid(uid) on the workspace ws: the first entry with that uid,
\* with its index (Python counts from 0)
search_by_uid(ws, uid) ==
    LET hits == {i \in 1 .. Len(ws) : heap[ws[i]].uid = uid}
    IN IF hits = {} THEN PyNone
       ELSE PyList(<< <<ws[Min(hits)], Min(hits) - 1>> >>)

\* list.pop(index), index counted from 0
pop(ws, index) ==
    [i \in 1 .. Len(ws) - 1 |-> IF i <= index THEN ws[i] ELSE ws[i + 1]]

\* a delete that would do nothing, and raise nothing, for an absent object
delete_quiet(s, obj) ==
    /\ saving = NoSave
    /\ obj \in Reachable(held, workspace)
    /\ LET result == search_by_uid(workspace[s], heap[obj].uid)
       IN IF result.isNone
          THEN UNCHANGED <<workspace, heap>>
          ELSE /\ workspace' = [workspace EXCEPT ![s] = pop(@, result.list[1][2])]
               /\ heap' = Collect(heap, held, workspace')
    /\ last' = Outcome("delete", s, None, "", <<>>)
    /\ UNCHANGED <<held, header_common, header, files, dirs, saving>>

\* delete(obj): result = search_by_uid(obj.uid); pop(result[0][1]).
\* Subscripting None raises TypeError.
delete(s, obj) ==
    /\ saving = NoSave
    /\ obj \in Reachable(held, workspace)
    /\ LET result == search_by_uid(workspace[s], heap[obj].uid)
       IN IF result.isNone
          THEN /\ last' = Outcome("delete", s, None, "TypeError", <<>>)
               /\ UNCHANGED <<workspace, heap>>
          ELSE /\ workspace' = [workspace EXCEPT ![s] = pop(@, result.list[1][2])]
               /\ heap' = Collect(heap, held, workspace')
               /\ last' = Outcome("delete", s, None, "", <<>>)
    /\ UNCHANGED <<held, header_common, header, files, dirs, saving>>

\* wipe_workspace(): del self.__workspace[:]
wipe_workspace(s) ==
    /\ saving = NoSave
    /\ workspace' = [workspace EXCEPT ![s] = <<>>]
    /\ heap' = Collect(heap, held, workspace')
    /\ last' = Outcome("wipe_workspace", s, None, "", <<>>)
    /\ UNCHANGED <<held, header_common, header, files, dirs, saving>>

\* an add_to_header that updates the common header
add_to_header_common(s, hdr) ==
    /\ saving = NoSave
    /\ header_common' = [header_common EXCEPT ![s] = update(@, hdr)]
    /\ last' = Outcome("add_to_header", s, None, "", <<>>)
    /\ UNCHANGED <<heap, held, workspace, header, files, dirs, saving>>

\* add_to_header(header): dict.update
add_to_header(s, hdr) ==
    /\ saving = NoSave
    /\ header' = [header EXCEPT ![s] = update(@, hdr)]
    /\ last' = Outcome("add_to_header", s, None, "", <<>>)
    /\ UNCHANGED <<heap, held, workspace, header_common, files, dirs, saving>>

\* ----------------------------------------------------------- search_by_name
\* the length of the longest common subsequence of two strings
RECURSIVE LCS(_, _)
LCS(s1, s2) ==
    IF s1 = <<>> \/ s2 = <<>> THEN 0
    ELSE IF Head(s1) = Head(s2) THEN 1 + LCS(Tail(s1), Tail(s2))
    ELSE LET x == LCS(Tail(s1), s2)
             y == LCS(s1, Tail(s2))
         IN IF x >= y THEN x ELSE y

\* int(round(num / den)): Python rounds a half to the even neighbour
intr(num, den) ==
    LET q == num \div den
        r == num % den
    IN IF 2 * r < den THEN q
       ELSE IF 2 * r > den THEN q + 1
       ELSE IF q % 2 = 0 THEN q ELSE q + 1

\* fuzz.ratio(s1, s2) of fuzzywuzzy: 100 for equal strings, 0 when one is
\* empty, else 100 * 2M / T rounded, with T the two lengths together and M
\* the matched characters (the Levenshtein ratio: M is the longest common
\* subsequence)
ratio(s1, s2) ==
    IF s1 = s2 THEN 100
    ELSE IF Len(s1) = 0 \/ Len(s2) = 0 THEN 0
    ELSE intr(100 * 2 * LCS(s1, s2), Len(s1) + Len(s2))

\* scores = [fuzz.ratio(obj.name, name) for obj in self.__workspace]
scores(ws, name) ==
    [i \in 1 .. Len(ws) |-> ratio(heap[ws[i]].name, name)]

\* a search that would return a single pick: the first of the top scorers
best_matches_first(ws, name) ==
    LET sc == scores(ws, name)
        best == Max(Range(sc))
        first == Min({i \in 1 .. Len(ws) : sc[i] = best})
    IN IF best < Threshold THEN <<>>
       ELSE << <<ws[first], first - 1>> >>

\* [(x, i) for i, x in enumerate(ws) if scores[i] == best], or [] under 70
best_matches(ws, name) ==
    LET sc == scores(ws, name)
        best == Max(Range(sc))
        idx == SelectSeq([i \in 1 .. Len(ws) |-> i], LAMBDA i : sc[i] = best)
    IN IF best < Threshold THEN <<>>
       ELSE [j \in 1 .. Len(idx) |-> <<ws[idx[j]], idx[j] - 1>>]

\* search_by_name(name); max() of no scores raises ValueError
search_by_name(s, name) ==
    /\ saving = NoSave
    /\ IF workspace[s] = <<>>
       THEN last' = [Outcome("search_by_name", s, None, "ValueError", <<>>)
                        EXCEPT !.name = name]
       ELSE last' = [Outcome("search_by_name", s, None, "", best_matches(workspace[s], name))
                        EXCEPT !.name = name]
    /\ UNCHANGED <<heap, held, workspace, header_common, header, files, dirs, saving>>

\* ------------------------------------------------------------- save_to_file
\* a save that would never find its target
exists_never(filepath) == FALSE

\* filepath.exists()
exists(filepath) == files[filepath].kind # "absent"

\* a path lookup that would fall back on a default file name
resolve_default(s, filename) ==
    IF filename # None THEN Path(filename)
    ELSE IF "filename" \in DOMAIN header[s] THEN header[s]["filename"]
    ELSE "d/a.pymec"

\* the path a call works on: self.__header['filename'] when the argument is
\* None (a KeyError when the header has no such key), else
\* pathlib.Path(filename)
resolve(s, filename) ==
    IF filename # None THEN Path(filename)
    ELSE IF "filename" \in DOMAIN header[s] THEN header[s]["filename"]
    ELSE "KeyError"

\* self.__header['filename'] = filepath
\* self.__header['savedate'] = datetime.now()
stamp(hdr, filepath, now) ==
    update(hdr, [filename |-> filepath, savedate |-> now])

\* a pickle.dump that would keep each object's uid and lose its name
dumps_unnamed(hc, hdr, ws) ==
    Pickled(<< hc, hdr,
               [i \in 1 .. Len(ws) |->
                   [id |-> Min({j \in 1 .. Len(ws) : ws[j] = ws[i]}),
                    uid |-> heap[ws[i]].uid,
                    name |-> <<>>]] >>)

\* pickle.dump([header_common, header, workspace]): the stream holds each
\* object's state (uid, name) and, through pickle's memo, which entries of
\* the list are one and the same object (id: the first index of the object)
dumps(hc, hdr, ws) ==
    Pickled(<< hc, hdr,
               [i \in 1 .. Len(ws) |->
                   [id |-> Min({j \in 1 .. Len(ws) : ws[j] = ws[i]}),
                    uid |-> heap[ws[i]].uid,
                    name |-> heap[ws[i]].name]] >>)

\* save_to_file(filename, overwrite), called when the clock reads `now`, up
\* to open(filepath, 'bw'), which creates the file or cuts it to length 0
\* before pickle.dump writes
save_to_file(s, filename, overwrite, now) ==
    /\ saving = NoSave
    /\ IF resolve(s, filename) = "KeyError"
       THEN /\ last' = Outcome("save_to_file", s, filename, "KeyError", <<>>)
            /\ UNCHANGED <<header, files, dirs, saving>>
       ELSE LET filepath == resolve(s, filename)
            IN /\ header' = [header EXCEPT ![s] = stamp(@, filepath, now)]
               /\ IF exists(filepath) /\ ~overwrite
                  THEN /\ last' = Outcome("save_to_file", s, filename,
                                          "FileExistsError", <<>>)
                       /\ UNCHANGED <<files, dirs, saving>>
                  ELSE /\ dirs' = dirs \cup Parents(filepath)
                       /\ files' = [files EXCEPT ![filepath] = Empty]
                       /\ saving' = [s |-> s, filepath |-> filepath]
                       /\ last' = Outcome("open", s, filename, "", <<>>)
    /\ UNCHANGED <<heap, held, workspace, header_common>>

\* pickle.dump writes the whole stream and the file is closed
pickle_dump ==
    /\ saving # NoSave
    /\ files' = [files EXCEPT ![saving.filepath] =
                    dumps(header_common[saving.s], header[saving.s],
                          workspace[saving.s])]
    /\ saving' = NoSave
    /\ last' = Outcome("save_to_file", saving.s, last.filename, "", <<>>)
    /\ UNCHANGED <<heap, held, workspace, header_common, header, dirs>>

\* pickle.dump raises on the way (the disk is full, a value cannot be
\* pickled): what was written so far stays in the file
pickle_dump_fails(written) ==
    /\ saving # NoSave
    /\ files' = [files EXCEPT ![saving.filepath] = written]
    /\ saving' = NoSave
    /\ last' = Outcome("save_to_file", saving.s, last.filename, "OSError", <<>>)
    /\ UNCHANGED <<heap, held, workspace, header_common, header, dirs>>

\* ---------------------------------------------------------------- load_file
\* a load_file that would look at its workspace only after reading the file
load_error_late(s, filename, overwrite) ==
    IF resolve(s, filename) = "KeyError" THEN "KeyError"
    ELSE LET content == files[resolve(s, filename)]
         IN IF content.kind = "absent" THEN "FileNotFoundError"
            ELSE IF content.kind = "empty" THEN "EOFError"
            ELSE IF content.kind # "pickle" THEN "UnpicklingError"
            ELSE IF Len(content.data) # 3 THEN "TypeError"
            ELSE IF workspace[s] # <<>> /\ ~overwrite THEN "FileExistsError"
            ELSE ""

\* the exception load_file raises, "" when it loads
load_error(s, filename, overwrite) ==
    IF workspace[s] # <<>> /\ ~overwrite THEN "FileExistsError"
    ELSE IF resolve(s, filename) = "KeyError" THEN "KeyError"
    ELSE LET content == files[resolve(s, filename)]
         IN IF content.kind = "absent" THEN "FileNotFoundError"
            ELSE IF content.kind = "empty" THEN "EOFError"
            ELSE IF content.kind # "pickle" THEN "UnpicklingError"
            ELSE IF Len(content.data) # 3 THEN "TypeError"
            ELSE ""

\* the k-th smallest element of a set of references
nth(S, k) == CHOOSE r \in S : Cardinality({x \in S : x <= r}) = k

\* pickle.load of a workspace: one new object per pickled object, placed in
\* the references of `free`; entries that were one object are one object
loads_refs(ser, free) ==
    LET ids == {ser[i].id : i \in 1 .. Len(ser)}
    IN [i \in 1 .. Len(ser) |->
           nth(free, Cardinality({j \in ids : j <= ser[i].id}))]

\* load_file(filename, overwrite)
load_file(s, filename, overwrite) ==
    /\ saving = NoSave
    /\ LET err == load_error(s, filename, overwrite)
       IN IF err # ""
          THEN /\ last' = Outcome("load_file", s, filename, err, <<>>)
               /\ UNCHANGED <<heap, workspace, header_common, header>>
          ELSE LET loaded == files[resolve(s, filename)].data
                   ser == loaded[3]
                   refs == loads_refs(ser, Region(s))
               IN /\ header_common' = [header_common EXCEPT ![s] = loaded[1]]
                  /\ header' = [header EXCEPT ![s] = loaded[2]]
                  /\ workspace' = [workspace EXCEPT ![s] = refs]
                  /\ heap' = Collect(
                        [r \in Refs |->
                            IF \E i \in 1 .. Len(ser) : refs[i] = r
                            THEN LET i == CHOOSE i \in 1 .. Len(ser) : refs[i] = r
                                 IN [uid |-> ser[i].uid, name |-> ser[i].name]
                            ELSE heap[r]],
                        held, workspace')
                  /\ last' = Outcome("load_file", s, filename, "", <<>>)
    /\ UNCHANGED <<held, files, dirs, saving>>

\* -------------------------------------------------------------- environment
\* files that other programs leave at the paths
ForeignContents ==
    { Garbage,
      Pickled(<<VersionHeader, EmptyDict>>),
      Pickled(<<[pyMec_version |-> "0.0.0"], EmptyDict, <<>> >>) }

other_program_writes(filepath, content) ==
    /\ saving = NoSave
    /\ files' = [files EXCEPT ![filepath] = content]
    /\ dirs' = dirs \cup Parents(filepath)
    /\ last' = Outcome("other program", NoSession, None, "", <<>>)
    /\ UNCHANGED <<heap, held, workspace, header_common, header, saving>>

\* a session as PyMecSession() makes it
Fresh(s) ==
    /\ workspace[s] = <<>>
    /\ header[s] = EmptyDict
    /\ header_common[s] = VersionHeader

\* the name the client gives the next object it constructs
NextName == IF Cardinality(held) % 2 = 0 THEN <<"a", "b", "c">> ELSE <<"a", "b", "d">>

\* the client program that saves and loads, as test_save_load_file does:
\* it works on `session`, and now and then makes a `new_session` that loads
\* a file and is looked at and dropped before the program goes on
Next ==
    \/ /\ Fresh("new_session") /\ Cardinality(held) < MaxNew
       /\ PyMecObject_init(NextName)
       /\ UNCHANGED geometry
    \/ /\ Fresh("new_session")
       /\ PyMecSession_init("session")
       /\ UNCHANGED geometry
    \/ /\ Fresh("new_session")
       /\ \E value \in UserHeaders : header_set("session", value)
       /\ UNCHANGED geometry
    \/ /\ Fresh("new_session")
       /\ header_del("session")
       /\ UNCHANGED geometry
    \/ /\ Fresh("new_session")
       /\ \E hdr \in UserHeaders : add_to_header("session", hdr)
       /\ UNCHANGED geometry
    \/ /\ Fresh("new_session") /\ Len(workspace["session"]) < MaxWs
       /\ \E obj \in held \cup Range(workspace["session"]) \cup {NotAnObject} :
             append("session", obj)
       /\ UNCHANGED geometry
    \/ /\ Fresh("new_session")
       /\ \E obj \in Refs : delete("session", obj)
       /\ UNCHANGED geometry
    \/ /\ Fresh("new_session")
       /\ wipe_workspace("session")
       /\ UNCHANGED geometry
    \/ /\ Fresh("new_session")
       /\ \E filename \in FileArgs \cup {None}, overwrite \in BOOLEAN,
             now \in Instants :
             save_to_file("session", filename, overwrite, now)
       /\ UNCHANGED geometry
    \/ /\ Fresh("new_session")
       /\ pickle_dump
       /\ UNCHANGED geometry
    \/ /\ Fresh("new_session")
       /\ \E written \in {Empty, Partial} : pickle_dump_fails(written)
       /\ UNCHANGED geometry
    \/ /\ Fresh("new_session")
       /\ \E s \in Sessions, filename \in FileArgs \cup {None}, overwrite \in BOOLEAN :
             load_file(s, filename, overwrite)
       /\ UNCHANGED geometry
    \/ /\ Fresh("new_session")
       /\ \E filepath \in Paths, content \in ForeignContents :
             other_program_writes(filepath, content)
       /\ UNCHANGED geometry
    \/ /\ ~Fresh("new_session")
       /\ PyMecSession_init("new_session")
       /\ UNCHANGED geometry

Spec == Init /\ [][Next]_vars

\* the client program that works on one session's workspace: more objects,
\* renamed at will, and searches
NextWorkspace ==
    \/ /\ Cardinality(held) < MaxObjects
       /\ \E name \in Names : PyMecObject_init(name)
       /\ UNCHANGED geometry
    \/ /\ \E obj \in Refs, value \in Names : name_set(obj, value)
       /\ UNCHANGED geometry
    \/ /\ Len(workspace["session"]) < MaxLen
       /\ \E obj \in held \cup {NotAnObject} : append("session", obj)
       /\ UNCHANGED geometry
    \/ /\ \E obj \in Refs : delete("session", obj)
       /\ UNCHANGED geometry
    \/ /\ wipe_workspace("session")
       /\ UNCHANGED geometry
    \/ /\ \E name \in Queries : search_by_name("session", name)
       /\ UNCHANGED geometry

SpecWorkspace == Init /\ [][NextWorkspace]_vars

\* ---------------------------------------------------------------- geometry
\* Vectors, Points, Segments and Contours live in `geometry`, a map from the
\* references of the live objects to the objects. Each object carries its
\* class and the attributes its __init__ sets; the uid, which nothing below
\* reads, is left to PyMecObject_init above.
VectorObj(name, coordinates) ==
    [cls |-> "Vector", name |-> name, coordinates |-> coordinates]

PointObj(name, position) ==
    [cls |-> "Point", name |-> name, position |-> position]

SegmentObj(name, start, end) ==
    [cls |-> "Segment", name |-> name, start |-> start, end |-> end]

ContourObj(name, segment_list) ==
    [cls |-> "Contour", name |-> name, segment_list |-> segment_list]

\* the reference of the next object constructed
id(g) == Min({r \in 1 .. Cardinality(DOMAIN g) + 1 : r \notin DOMAIN g})

store(g, r, obj) == (r :> obj) @@ g

\* the objects an object refers to
referents(g, r) ==
    CASE g[r].cls = "Vector" -> {}
      [] g[r].cls = "Point" -> {g[r].position}
      [] g[r].cls = "Segment" -> {g[r].start, g[r].end}
      [] g[r].cls = "Contour" -> Range(g[r].segment_list)

RECURSIVE live(_, _)
live(g, roots) ==
    LET more == roots \cup UNION {referents(g, r) : r \in roots}
    IN IF more = roots THEN roots ELSE live(g, more)

\* the objects left once Python has freed those no root leads to
collect(g, roots) == [r \in live(g, roots \cap DOMAIN g) |-> g[r]]

\* what evaluating an expression gives: the objects after it, and the
\* reference it returns or the class of the exception it raises
returns(g, ret) == [g |-> g, ret |-> ret, err |-> ""]

raises(g, err) == [g |-> g, ret |-> 0, err |-> err]

\* ------------------------------------------------------------------ Vector
\* the coordinates the client gives its vectors. They are integers, which
\* float(i) and the sums, differences and products below represent exactly,
\* so a coordinate is modelled by the integer it equals.
CoordValues == {-1, 0, 2}
Coords == UNION {[1 .. d -> CoordValues] : d \in 0 .. MaxDim}

\* Vector.__init__(coord, name)
Vector_init(g, coord, name) == returns(store(g, id(g), VectorObj(name, coord)), id(g))

\* Vector.dim
dim(g, vect) == Len(g[vect].coordinates)

\* Vector.check_dim: TRUE when it returns, FALSE when it raises ValueError
check_dim(g, self, vect) == dim(g, self) = dim(g, vect)

\* zip(c1, c2): pairs up to the end of the shorter list
zip(c1, c2) == [i \in 1 .. Min({Len(c1), Len(c2)}) |-> <<c1[i], c2[i]>>]

\* Vector.__add__
Vector_add(g, self, vect) ==
    IF ~check_dim(g, self, vect) THEN raises(g, "ValueError")
    ELSE LET z == zip(g[self].coordinates, g[vect].coordinates)
         IN Vector_init(g, [i \in 1 .. Len(z) |-> z[i][1] + z[i][2]], <<>>)

\* a subtraction that takes self from vect
Vector_sub_swapped(g, self, vect) ==
    IF ~check_dim(g, self, vect) THEN raises(g, "ValueError")
    ELSE LET z == zip(g[self].coordinates, g[vect].coordinates)
         IN Vector_init(g, [i \in 1 .. Len(z) |-> z[i][2] - z[i][1]], <<>>)

\* Vector.__sub__
Vector_sub(g, self, vect) ==
    IF ~check_dim(g, self, vect) THEN raises(g, "ValueError")
    ELSE LET z == zip(g[self].coordinates, g[vect].coordinates)
         IN Vector_init(g, [i \in 1 .. Len(z) |-> z[i][1] - z[i][2]], <<>>)

\* Vector.__mul__(num), num a number
Vector_mul(g, self, num) ==
    Vector_init(g, [i \in 1 .. dim(g, self) |-> num * g[self].coordinates[i]], <<>>)

\* an equality that holds of a vector and itself only
Vector_is(g, self, vector) == self = vector

\* Vector.__eq__: the coordinate lists are equal
Vector_eq(g, self, vector) == g[self].coordinates = g[vector].coordinates

\* a cross product with the two terms of each component swapped
cross_product_swapped(g, self, vect) ==
    IF ~check_dim(g, self, vect) THEN raises(g, "ValueError")
    ELSE IF dim(g, self) # 3 THEN raises(g, "ValueError")
    ELSE LET a == g[self].coordinates
             b == g[vect].coordinates
         IN Vector_init(g, [k \in 1 .. 3 |->
                               a[((k + 1) % 3) + 1] * b[(k % 3) + 1]
                               - a[(k % 3) + 1] * b[((k + 1) % 3) + 1]], <<>>)

\* Vector.cross_product. Python's i runs over 0, 1, 2 and indexes from 0;
\* k = i + 1 runs over 1, 2, 3, and coordinates[(i+n)%3] is at (k+n-1)%3 + 1.
cross_product(g, self, vect) ==
    IF ~check_dim(g, self, vect) THEN raises(g, "ValueError")
    ELSE IF dim(g, self) # 3 THEN raises(g, "ValueError")
    ELSE LET a == g[self].coordinates
             b == g[vect].coordinates
         IN Vector_init(g, [k \in 1 .. 3 |->
                               a[(k % 3) + 1] * b[((k + 1) % 3) + 1]
                               - a[((k + 1) % 3) + 1] * b[(k % 3) + 1]], <<>>)

\* a statement of the client program: the objects no variable leads to any
\* more are freed, the expression is evaluated, and its value (or its
\* exception) is what the program looks at next, with the arguments it
\* gave; `keep` tells whether the value is assigned to a variable
statement(op, args, ev, keep) ==
    /\ held' = IF keep /\ ev.err = "" THEN held \cup {ev.ret} ELSE held
    /\ geometry' = collect(ev.g, IF ev.err = "" THEN held \cup {ev.ret} ELSE held)
    /\ last' = Outcome(op, NoSession, None, ev.err, ev.ret) @@ [args |-> args]
    /\ UNCHANGED <<heap, workspace, header_common, header, files, dirs, saving>>

\* the objects a statement starts from
objects == collect(geometry, held)

\* v = Vector(coord)
client_Vector(coord) ==
    statement("Vector", <<coord>>, Vector_init(objects, coord, <<>>), TRUE)

\* a + b, a - b and a.cross_product(b) on two of the client's vectors
client_add(a, b) ==
    statement("Vector.__add__", <<a, b>>, Vector_add(objects, a, b), FALSE)

client_sub(a, b) ==
    statement("Vector.__sub__", <<a, b>>, Vector_sub(objects, a, b), FALSE)

client_cross_product(a, b) ==
    statement("Vector.cross_product", <<a, b>>, cross_product(objects, a, b), FALSE)

\* the client program of the vector tests: two vectors, then sums,
\* differences and cross products of them
NextVector ==
    \/ /\ Cardinality(held) < 2
       /\ \E coord \in Coords : client_Vector(coord)
    \/ \E a, b \in held : client_add(a, b)
    \/ \E a, b \in held : client_sub(a, b)
    \/ \E a, b \in held : client_cross_product(a, b)

SpecVector == Init /\ [][NextVector]_vars

\* ------------------------------------------------- Point, Segment, Contour
\* None where a reference is expected (the default of pos, corner, vect_1 ...)
NoneRef == 0

\* Point.__init__(pos, name)
Point_init(g, pos, name) ==
    IF pos = NoneRef
    THEN LET v == Vector_init(g, <<>>, <<>>)
         IN returns(store(v.g, id(v.g), PointObj(name, v.ret)), id(v.g))
    ELSE IF g[pos].cls # "Vector" THEN raises(g, "TypeError")
    ELSE returns(store(g, id(g), PointObj(name, pos)), id(g))

\* Point.__add__(vect): Point(self.position + vect)
Point_add(g, self, vect) ==
    IF g[vect].cls # "Vector" THEN raises(g, "TypeError")
    ELSE LET pos == Vector_add(g, g[self].position, vect)
         IN IF pos.err # "" THEN pos ELSE Point_init(pos.g, pos.ret, <<>>)

\* Segment.__init__(start, end, name), start and end given
Segment_init(g, start, end, name) ==
    returns(store(g, id(g), SegmentObj(name, start, end)), id(g))

\* Contour.__init__(name)
Contour_init(g, name) == returns(store(g, id(g), ContourObj(name, <<>>)), id(g))

\* Contour.add_segment(segment); it returns None
add_segment(g, self, segment) ==
    returns([g EXCEPT ![self].segment_list = Append(@, segment)], NoneRef)

\* Contour.append(segment): adds the segment to the end
Contour_append(g, self, segment) ==
    returns([g EXCEPT ![self].segment_list = Append(@, segment)], NoneRef)

\* the walk of is_closed from segment i on: each segment's end position
\* against the start position of the next, the last against the first
RECURSIVE walk_closed(_, _, _)
walk_closed(g, segs, i) ==
    IF i > Len(segs) THEN TRUE
    ELSE LET next == segs[(i % Len(segs)) + 1]
         IN IF Vector_eq(g, g[g[segs[i]].end].position, g[g[next].start].position)
            THEN walk_closed(g, segs, i + 1)
            ELSE FALSE

\* Contour.is_closed()
is_closed(g, self) ==
    IF Len(g[self].segment_list) < 3 THEN FALSE
    ELSE walk_closed(g, g[self].segment_list, 1)

\* ---------------------------------------------------------------- __str__
\* strings are sequences of characters, as the names are
Digit == <<"0", "1", "2", "3", "4", "5", "6", "7", "8", "9">>

RECURSIVE decimal(_)
decimal(n) ==
    IF n < 10 THEN <<Digit[n + 1]>>
    ELSE decimal(n \div 10) \o <<Digit[(n % 10) + 1]>>

\* repr of a float that is a whole number: 2.0, -1.0
repr(x) ==
    (IF x < 0 THEN <<"-">> ELSE <<>>) \o decimal(IF x < 0 THEN -x ELSE x)
        \o <<".", "0">>

RECURSIVE items(_, _)
items(coordinates, i) ==
    IF i > Len(coordinates) THEN <<>>
    ELSE (IF i > 1 THEN <<",", " ">> ELSE <<>>) \o repr(coordinates[i])
            \o items(coordinates, i + 1)

\* str(self.coordinates), the str of a list of floats
list_str(coordinates) == <<"[">> \o items(coordinates, 1) \o <<"]">>

\* Point.__str__
Point_str(g, self) == g[self].name \o list_str(g[g[self].position].coordinates)

\* Segment.__str__
Segment_str(g, self) ==
    g[self].name \o <<":">> \o Point_str(g, g[self].start) \o <<"-", "-">>
        \o Point_str(g, g[self].end)

RECURSIVE segment_lines(_, _, _)
segment_lines(g, segs, i) ==
    IF i > Len(segs) THEN <<>>
    ELSE <<"\n">> \o Segment_str(g, segs[i]) \o segment_lines(g, segs, i + 1)

\* Contour.__str__
Contour_str(g, self) ==
    g[self].name \o <<":">> \o segment_lines(g, g[self].segment_list, 1)

\* ------------------------------------------------------------ parallelogram
\* a parallelogram whose third segment runs back to the second corner
parallelogram_open(g, corner, vect_1, vect_2, name) ==
    LET e_corner == IF corner = NoneRef THEN Point_init(g, NoneRef, <<>>)
                    ELSE returns(g, corner)
        e_v1 == IF vect_1 = NoneRef THEN Vector_init(e_corner.g, <<>>, <<>>)
                ELSE returns(e_corner.g, vect_1)
        e_v2 == IF vect_2 = NoneRef THEN Vector_init(e_v1.g, <<>>, <<>>)
                ELSE returns(e_v1.g, vect_2)
        e_ret == Contour_init(e_v2.g, name)
        c_1 == e_corner.ret
        e_c2 == Point_add(e_ret.g, c_1, e_v1.ret)
        e_t == Point_add(e_c2.g, c_1, e_v1.ret)
        e_c3 == Point_add(e_t.g, e_t.ret, e_v2.ret)
        e_c4 == Point_add(e_c3.g, c_1, e_v2.ret)
        e_s1 == Segment_init(e_c4.g, c_1, e_c2.ret, <<>>)
        e_a1 == add_segment(e_s1.g, e_ret.ret, e_s1.ret)
        e_s2 == Segment_init(e_a1.g, e_c2.ret, e_c3.ret, <<>>)
        e_a2 == add_segment(e_s2.g, e_ret.ret, e_s2.ret)
        e_s3 == Segment_init(e_a2.g, e_c3.ret, e_c2.ret, <<>>)
        e_a3 == add_segment(e_s3.g, e_ret.ret, e_s3.ret)
        e_s4 == Segment_init(e_a3.g, e_c4.ret, c_1, <<>>)
        e_a4 == add_segment(e_s4.g, e_ret.ret, e_s4.ret)
    IN IF e_c2.err # "" THEN e_c2
       ELSE IF e_t.err # "" THEN e_t
       ELSE IF e_c3.err # "" THEN e_c3
       ELSE IF e_c4.err # "" THEN e_c4
       ELSE returns(e_a4.g, e_ret.ret)

\* parallelogram(corner, vect_1, vect_2, name), statement by statement; an
\* exception of corner + vect ends the call
parallelogram(g, corner, vect_1, vect_2, name) ==
    LET e_corner == IF corner = NoneRef THEN Point_init(g, NoneRef, <<>>)
                    ELSE returns(g, corner)
        e_v1 == IF vect_1 = NoneRef THEN Vector_init(e_corner.g, <<>>, <<>>)
                ELSE returns(e_corner.g, vect_1)
        e_v2 == IF vect_2 = NoneRef THEN Vector_init(e_v1.g, <<>>, <<>>)
                ELSE returns(e_v1.g, vect_2)
        e_ret == Contour_init(e_v2.g, name)
        c_1 == e_corner.ret
        e_c2 == Point_add(e_ret.g, c_1, e_v1.ret)
        e_t == Point_add(e_c2.g, c_1, e_v1.ret)
        e_c3 == Point_add(e_t.g, e_t.ret, e_v2.ret)
        e_c4 == Point_add(e_c3.g, c_1, e_v2.ret)
        e_s1 == Segment_init(e_c4.g, c_1, e_c2.ret, <<>>)
        e_a1 == add_segment(e_s1.g, e_ret.ret, e_s1.ret)
        e_s2 == Segment_init(e_a1.g, e_c2.ret, e_c3.ret, <<>>)
        e_a2 == add_segment(e_s2.g, e_ret.ret, e_s2.ret)
        e_s3 == Segment_init(e_a2.g, e_c3.ret, e_c4.ret, <<>>)
        e_a3 == add_segment(e_s3.g, e_ret.ret, e_s3.ret)
        e_s4 == Segment_init(e_a3.g, e_c4.ret, c_1, <<>>)
        e_a4 == add_segment(e_s4.g, e_ret.ret, e_s4.ret)
    IN IF e_c2.err # "" THEN e_c2
       ELSE IF e_t.err # "" THEN e_t
       ELSE IF e_c3.err # "" THEN e_c3
       ELSE IF e_c4.err # "" THEN e_c4
       ELSE returns(e_a4.g, e_ret.ret)

\* --------------------------------------------- the contour client programs
\* the points of test_is_closed and test_parallelogram, p_1 .. p_4, and p_5,
\* a second point at p_1's position that has a name
PointCoords == << <<0, 1, 1>>, <<0, 1, 2>>, <<0, 2, 2>>, <<0, 2, 1>>, <<0, 1, 1>> >>
PointNames == << <<>>, <<>>, <<>>, <<>>, <<"p">> >>
\* the vectors of test_parallelogram, and one of dimension 2
SideCoords == << <<0, 0, 1>>, <<0, 1, 0>>, <<0, 1>> >>

\* the references of the client's variables: the position vectors first,
\* then the points p_i, the vectors v_i and the contour c_1
point(i) == Len(PointCoords) + i
side(i) == 2 * Len(PointCoords) + i
contour == 2 * Len(PointCoords) + Len(SideCoords) + 1

\* the objects after the client has constructed them, in that order
Shapes ==
    [r \in 1 .. contour |->
        IF r <= Len(PointCoords) THEN VectorObj(<<>>, PointCoords[r])
        ELSE IF r <= point(Len(PointCoords))
             THEN PointObj(PointNames[r - Len(PointCoords)], r - Len(PointCoords))
        ELSE IF r < contour THEN VectorObj(<<>>, SideCoords[r - point(Len(PointCoords))])
        ELSE ContourObj(<<>>, <<>>)]

InitShapes ==
    /\ heap = [r \in Refs |-> NoObj]
    /\ held = ((point(1) .. contour))
    /\ workspace = [s \in Sessions |-> <<>>]
    /\ header_common = [s \in Sessions |-> VersionHeader]
    /\ header = [s \in Sessions |-> EmptyDict]
    /\ files = [f \in Paths |-> Absent]
    /\ dirs = {}
    /\ saving = NoSave
    /\ last = Outcome("start", NoSession, None, "", <<>>)
    /\ geometry = Shapes

\* the segments the client builds, as <<i, j>> for Segment(p_i, p_j): the
\* sides of the quadrilateral, its last side ending at p_5, and the segment
\* from p_1 to p_5
SegmentArgs == { <<1, 2>>, <<2, 3>>, <<3, 4>>, <<4, 1>>, <<4, 5>>, <<1, 5>> }

\* c_1.append(Segment(p_i, p_j))
client_append(arg) ==
    LET s == Segment_init(objects, point(arg[1]), point(arg[2]), <<>>)
    IN statement("Contour.append", arg, Contour_append(s.g, contour, s.ret), FALSE)

\* c_1.is_closed()
client_is_closed ==
    /\ geometry' = objects
    /\ last' = Outcome("Contour.is_closed", NoSession, None, "", is_closed(objects, contour))
                  @@ [args |-> <<>>]
    /\ UNCHANGED <<heap, held, workspace, header_common, header, files, dirs, saving>>

\* the client program of test_is_closed
NextContour ==
    \/ /\ Len(geometry[contour].segment_list) < MaxSegments
       /\ \E arg \in SegmentArgs : client_append(arg)
    \/ client_is_closed

SpecContour == InitShapes /\ [][NextContour]_vars

\* the segments of the contour the client builds by hand: the sides of the
\* quadrilateral from p_1, and from p_5
ManualArgs == { <<1, 2>>, <<2, 3>>, <<3, 4>>, <<4, 1>>, <<5, 2>>, <<4, 5>> }

\* c_1.add_segment(Segment(p_i, p_j))
client_add_segment(arg) ==
    LET s == Segment_init(objects, point(arg[1]), point(arg[2]), <<>>)
    IN statement("Contour.add_segment", arg, add_segment(s.g, contour, s.ret), FALSE)

\* the arguments the client gives parallelogram (None: the default)
CornerArgs == {NoneRef, point(1), point(5)}
Vect1Args == {NoneRef, side(1)}
Vect2Args == {NoneRef, side(2), side(3)}

\* str(parallelogram(corner, vect_1, vect_2)), the contour not kept
client_parallelogram(corner, vect_1, vect_2) ==
    statement("parallelogram", <<corner, vect_1, vect_2>>,
              parallelogram(objects, corner, vect_1, vect_2, <<>>), FALSE)

\* the client program of test_parallelogram: it builds a contour by hand,
\* then calls parallelogram once and compares the two strs
NextParallelogram ==
    \/ /\ last.op # "parallelogram"
       /\ Len(geometry[contour].segment_list) < MaxSegments
       /\ \E arg \in ManualArgs : client_add_segment(arg)
    \/ /\ last.op # "parallelogram"
       /\ \E corner \in CornerArgs, vect_1 \in Vect1Args, vect_2 \in Vect2Args :
             client_parallelogram(corner, vect_1, vect_2)

SpecParallelogram == InitShapes /\ [][NextParallelogram]_vars

\* ------------------------------------------------------------------ claims
\* the uids, and the names, of a session's workspace entries in order
uids(hp, ws) == [i \in 1 .. Len(ws) |-> hp[ws[i]].uid]

names(hp, ws) == [i \in 1 .. Len(ws) |-> hp[ws[i]].name]

MissingFilename == "KeyError"
FileAlreadyExists == "FileExistsError"
WorkspaceNotEmpty == "FileExistsError"

\* C2: save_to_file never overwrites without permission. A save with
\* overwrite false whose target (from the argument or from the header's
\* filename) exists fails with FileAlreadyExists and leaves every file as
\* it was.
C2_NoOverwrite ==
    [][\A filename \in FileArgs \cup {None}, now \in Instants :
          (/\ last'.op \in {"open", "save_to_file"}
           /\ resolve("session", filename) # "KeyError"
           /\ files[resolve("session", filename)].kind # "absent"
           /\ save_to_file("session", filename, FALSE, now))
          => (last'.err = FileAlreadyExists /\ files' = files /\ dirs' = dirs)]_vars

\* C2 witness: a save without a filename argument was refused because the
\* file the header names exists, a complete unit
C2_Witness ==
    /\ last.op = "save_to_file" /\ last.err = FileAlreadyExists
    /\ last.filename = None
    /\ files[header["session"]["filename"]].kind = "pickle"
    /\ workspace["session"] # <<>>

\* C3: load_file protects existing data. On a session whose workspace is
\* not empty, load_file with overwrite false fails with WorkspaceNotEmpty
\* for every filename argument and changes nothing of the session.
C3_LoadProtects ==
    [][\A s \in Sessions, filename \in FileArgs \cup {None} :
          (/\ last'.op = "load_file"
           /\ workspace[s] # <<>>
           /\ load_file(s, filename, FALSE))
          => (/\ last'.err = WorkspaceNotEmpty
              /\ UNCHANGED <<workspace, header, header_common, heap>>)]_vars

\* C3 witness: a load with a filename was refused on a workspace that is
\* not empty while the file is no pickle stream at all
C3_Witness ==
    /\ last.op = "load_file" /\ last.err = WorkspaceNotEmpty
    /\ last.filename # None
    /\ files[Path(last.filename)].kind = "garbage"
    /\ workspace[last.s] # <<>>

\* C4: no partial mutation on a failed save. A save_to_file that fails with
\* MissingFilename or FileAlreadyExists leaves header and workspace as they
\* were.
C4_FailedSaveNoMutation ==
    [][(/\ last'.op = "save_to_file"
        /\ last'.err \in {MissingFilename, FileAlreadyExists})
       => (header' = header /\ workspace' = workspace)]_vars

\* C5: save is atomic at the target path. Every step of a save_to_file call
\* leaves each path with what it held before or with the complete new unit.
C5_AtomicSave ==
    [][last'.op \in {"open", "save_to_file"}
       => \A p \in Paths :
             \/ files'[p] = files[p]
             \/ files'[p] = dumps(header_common'[last'.s], header'[last'.s],
                                  workspace'[last'.s])]_vars

\* C6: no two entries of a session's workspace have the same uid.
C6_UidUnique ==
    \A s \in Sessions :
       \A i, j \in 1 .. Len(workspace[s]) :
          i # j => heap[workspace[s][i]].uid # heap[workspace[s][j]].uid

\* C7: search_by_name on a workspace that is not empty returns normally;
\* with best the highest score (0..100) of the entries' names against the
\* name, it returns nothing when best < 70 and else exactly the (object,
\* index) pairs of the entries that score best, by increasing index, each
\* object being the workspace's entry at its index. The search changes
\* neither workspace nor header.
C7_SearchByName ==
    [][(last'.op = "search_by_name" /\ workspace[last'.s] # <<>>)
       => LET ws == workspace[last'.s]
              ret == last'.ret
              score(i) == ratio(heap[ws[i]].name, last'.name)
              best == Max({score(i) : i \in 1 .. Len(ws)})
          IN /\ last'.err = ""
             /\ best \in 0 .. 100
             /\ best < Threshold => ret = <<>>
             /\ best >= Threshold =>
                   /\ {ret[k][2] + 1 : k \in 1 .. Len(ret)}
                         = {i \in 1 .. Len(ws) : score(i) = best}
                   /\ \A k \in 1 .. Len(ret) - 1 : ret[k][2] < ret[k + 1][2]
                   /\ \A k \in 1 .. Len(ret) : ret[k][1] = ws[ret[k][2] + 1]
             /\ UNCHANGED <<workspace, header, header_common, heap>>]_vars

\* C7 witness: a search over three entries returned the first and the third,
\* which tie at the top, and not the second
C7_Witness ==
    /\ last.op = "search_by_name" /\ last.err = ""
    /\ Len(workspace["session"]) = 3
    /\ Len(last.ret) = 2
    /\ last.ret[1][2] = 0 /\ last.ret[2][2] = 2

\* delete of an absent object: subscripting the None that search_by_uid
\* returned raises TypeError
NotFound == "TypeError"

\* C8: delete(obj) of an object whose uid is not in the workspace fails with
\* the not-found error and leaves the workspace as it was.
C8_DeleteAbsent ==
    [][\A s \in Sessions, obj \in Refs :
          (/\ last'.op = "delete"
           /\ obj \in Reachable(held, workspace)
           /\ \A i \in 1 .. Len(workspace[s]) :
                 heap[workspace[s][i]].uid # heap[obj].uid
           /\ delete(s, obj))
          => (last'.err = NotFound /\ workspace' = workspace)]_vars

\* C8 witness: a delete failed on a workspace that is not empty
C8_Witness ==
    /\ last.op = "delete" /\ last.err = NotFound
    /\ workspace["session"] # <<>>

\* C9: with no filename argument and no filename key in the header,
\* save_to_file fails with MissingFilename and changes no file, header or
\* workspace; load_file on an empty workspace fails with MissingFilename and
\* changes nothing of the session.
C9_MissingFilename ==
    [][/\ \A overwrite \in BOOLEAN, now \in Instants :
             (/\ last'.op \in {"open", "save_to_file"}
              /\ "filename" \notin DOMAIN header["session"]
              /\ save_to_file("session", None, overwrite, now))
             => (/\ last'.err = MissingFilename
                 /\ UNCHANGED <<files, dirs, header, workspace, header_common, heap>>)
       /\ \A s \in Sessions, overwrite \in BOOLEAN :
             (/\ last'.op = "load_file"
              /\ workspace[s] = <<>>
              /\ "filename" \notin DOMAIN header[s]
              /\ load_file(s, None, overwrite))
             => (/\ last'.err = MissingFilename
                 /\ UNCHANGED <<files, dirs, header, workspace, header_common, heap>>)]_vars

\* C9 witness: a save without a filename argument failed on a session that
\* holds an object and a header without filename, and no file exists
C9_Witness ==
    /\ last.op = "save_to_file" /\ last.err = MissingFilename
    /\ last.filename = None
    /\ workspace["session"] # <<>>
    /\ DOMAIN header["session"] = {"prop_1"}
    /\ \A p \in Paths : files[p] = Absent

\* C10: two PyMecObjects compare equal if and only if their uids are equal.
C10_EqualIffSameUid ==
    \A a, b \in Reachable(held, workspace) :
       PyMecObject_eq(a, b) <=> heap[a].uid = heap[b].uid

\* the spec's error kind for operands of unequal dimension, as the exception
\* check_dim raises (test_add, test_sub: ValueError)
DimensionMismatch == "ValueError"

\* C11: vector addition and subtraction. For vectors a, b of equal dimension
\* (0 included) a + b is a new Vector of that dimension, (a + b) - b equals
\* a, a + b equals b + a, and a - b is a new Vector of that dimension; a and
\* b are left as they were. For a, b of unequal dimension a + b and a - b
\* fail with DimensionMismatch and no Vector is made.
C11_VectorAlgebra ==
    [][LET a == last'.args[1]
           b == last'.args[2]
       IN /\ last'.op = "Vector.__add__"
             => IF dim(geometry, a) = dim(geometry, b)
                THEN LET sum == last'.ret
                         back == Vector_sub(geometry', sum, b)
                         other == Vector_add(geometry', b, a)
                     IN /\ last'.err = ""
                        /\ sum \notin held
                        /\ geometry'[sum].cls = "Vector"
                        /\ dim(geometry', sum) = dim(geometry, a)
                        /\ geometry'[a] = geometry[a]
                        /\ geometry'[b] = geometry[b]
                        /\ back.err = "" /\ Vector_eq(back.g, back.ret, a)
                        /\ other.err = "" /\ Vector_eq(other.g, other.ret, sum)
                ELSE /\ last'.err = DimensionMismatch
                     /\ DOMAIN geometry' \subseteq held
                     /\ geometry'[a] = geometry[a]
                     /\ geometry'[b] = geometry[b]
          /\ last'.op = "Vector.__sub__"
             => IF dim(geometry, a) = dim(geometry, b)
                THEN LET diff == last'.ret
                     IN /\ last'.err = ""
                        /\ diff \notin held
                        /\ geometry'[diff].cls = "Vector"
                        /\ dim(geometry', diff) = dim(geometry, a)
                        /\ geometry'[a] = geometry[a]
                        /\ geometry'[b] = geometry[b]
                ELSE /\ last'.err = DimensionMismatch
                     /\ DOMAIN geometry' \subseteq held
                     /\ geometry'[a] = geometry[a]
                     /\ geometry'[b] = geometry[b]]_vars

\* C11 witness: the sum of two different vectors of dimension 3 was made,
\* and it differs from both
C11_Witness ==
    /\ last.op = "Vector.__add__" /\ last.err = ""
    /\ dim(geometry, last.ret) = 3
    /\ Cardinality({geometry[r].coordinates : r \in DOMAIN geometry}) = 3

\* C12: cross product. For a, b both of dimension 3, a.cross_product(b) is
\* (a2*b3 - a3*b2, a3*b1 - a1*b3, a1*b2 - a2*b1); it equals
\* b.cross_product(a) scaled by -1, and it is the zero vector when b is an
\* integer multiple of a. When a or b is not of dimension 3 the call fails
\* and no Vector is made.
C12_CrossProduct ==
    [][last'.op = "Vector.cross_product"
       => LET a == last'.args[1]
              b == last'.args[2]
          IN IF dim(geometry, a) = 3 /\ dim(geometry, b) = 3
             THEN LET x == geometry[a].coordinates
                      y == geometry[b].coordinates
                      prod == last'.ret
                      ba == cross_product(geometry', b, a)
                      neg == Vector_mul(ba.g, ba.ret, -1)
                  IN /\ last'.err = ""
                     /\ geometry'[prod].coordinates
                           = << x[2] * y[3] - x[3] * y[2],
                                x[3] * y[1] - x[1] * y[3],
                                x[1] * y[2] - x[2] * y[1] >>
                     /\ ba.err = "" /\ Vector_eq(neg.g, neg.ret, prod)
                     /\ (\E k \in -2 .. 2 : y = [i \in 1 .. 3 |-> k * x[i]])
                           => geometry'[prod].coordinates = <<0, 0, 0>>
             ELSE /\ last'.err # ""
                  /\ DOMAIN geometry' \subseteq held]_vars

\* C12 witness: a cross product of two vectors of dimension 3 that is not
\* the zero vector
C12_Witness ==
    /\ last.op = "Vector.cross_product" /\ last.err = ""
    /\ geometry[last.ret].coordinates # <<0, 0, 0>>

\* the coordinates of a point's position
position(g, pt) == g[g[pt].position].coordinates

\* the componentwise sum of two coordinate lists of one length
plus(x, y) == [i \in 1 .. Len(x) |-> x[i] + y[i]]

\* contour m was built by hand from the four corner points: it has no name
\* and four segments without names, segment i runs from a point at
\* corners[i] to a point at the next corner (the fourth back to the first),
\* the points at the first corner have the corner's name and the others none
built_by_hand(g, m, corner_name, corners) ==
    /\ g[m].cls = "Contour" /\ g[m].name = <<>>
    /\ Len(g[m].segment_list) = 4
    /\ \A i \in 1 .. 4 :
          LET seg == g[g[m].segment_list[i]]
          IN /\ seg.name = <<>>
             /\ position(g, seg.start) = corners[i]
             /\ position(g, seg.end) = corners[(i % 4) + 1]
             /\ g[seg.start].name = IF i = 1 THEN corner_name ELSE <<>>
             /\ g[seg.end].name = IF i = 4 THEN corner_name ELSE <<>>

\* C13: parallelogram(corner, v1, v2) with corner, v1 and v2 of one dimension
\* returns a contour of exactly 4 segments that run, in order, between the
\* positions (c, c+v1), (c+v1, c+v1+v2), (c+v1+v2, c+v2), (c+v2, c), c being
\* corner's position; each segment ends where the next starts, the last
\* where the first starts; and its str equals the str of a contour built by
\* hand from the same four corner points.
C13_Parallelogram ==
    [][last'.op = "parallelogram"
       => LET corner == last'.args[1]
              vect_1 == last'.args[2]
              vect_2 == last'.args[3]
          IN LET c == IF corner = NoneRef THEN <<>> ELSE position(geometry, corner)
                 c_name == IF corner = NoneRef THEN <<>> ELSE geometry[corner].name
                 v1 == IF vect_1 = NoneRef THEN <<>> ELSE geometry[vect_1].coordinates
                 v2 == IF vect_2 = NoneRef THEN <<>> ELSE geometry[vect_2].coordinates
                 corners == <<c, plus(c, v1), plus(plus(c, v1), v2), plus(c, v2)>>
                 ret == last'.ret
                 seg(i) == geometry'[geometry'[ret].segment_list[i]]
             IN (Len(c) = Len(v1) /\ Len(c) = Len(v2))
                => /\ last'.err = ""
                   /\ geometry'[ret].cls = "Contour"
                   /\ Len(geometry'[ret].segment_list) = 4
                   /\ \A i \in 1 .. 4 :
                         /\ position(geometry', seg(i).start) = corners[i]
                         /\ position(geometry', seg(i).end) = corners[(i % 4) + 1]
                         /\ position(geometry', seg(i).end)
                               = position(geometry', seg((i % 4) + 1).start)
                   /\ \A m \in held :
                         built_by_hand(geometry, m, c_name, corners)
                         => Contour_str(geometry', m) = Contour_str(geometry', ret)]_vars

\* C13 witness: parallelogram has returned the contour on the named corner
\* p_5 while the client holds the contour it built by hand from p_5, p_2,
\* p_3 and p_4
C13_Witness ==
    /\ last.op = "parallelogram" /\ last.err = ""
    /\ Len(geometry[contour].segment_list) = 4
    /\ geometry[geometry[geometry[last.ret].segment_list[1]].start].name = <<"p">>
    /\ built_by_hand(geometry, contour, <<"p">>,
                     <<PointCoords[5], PointCoords[2], PointCoords[3], PointCoords[4]>>)
    /\ Contour_str(geometry, contour) = Contour_str(geometry, last.ret)

C15_SearchNeverFails ==
    [][last'.op = "search_by_name"
       => LET ws == workspace[last'.s]
          IN /\ last'.err = ""
             /\ (\A i \in 1 .. Len(ws) :
                    ratio(heap[ws[i]].name, last'.name) < Threshold)
                => last'.ret = <<>>]_vars

\* C16: the common header is fixed. In a run where no other program writes
\* a file, so that every file was written by save_to_file, each session's
\* common header is at all times the value its creation set; and whatever
\* the files hold, append, delete, wipe_workspace and add_to_header leave
\* the common header as it was.
C16_CommonHeaderFixed ==
    /\ ([](last.op # "other program"))
          => [](\A s \in Sessions : header_common[s] = VersionHeader)
    /\ [][last'.op \in {"append", "delete", "wipe_workspace", "add_to_header"}
            => header_common' = header_common]_vars

\* C16 witness: a session has loaded, with success, a file that holds a
\* workspace and a header with a user key, and its common header is the
\* value its creation set
C16_Witness ==
    /\ last.op = "load_file" /\ last.err = ""
    /\ workspace[last.s] # <<>>
    /\ "prop_1" \in DOMAIN header[last.s]
    /\ header_common[last.s] = VersionHeader

====
